---- MODULE Spec2Model ----
(***************************************************************************)
(* Model of the course-management views (courses/views.py) over the        *)
(* relational schema of courses/models.py.                                 *)
(*                                                                         *)
(* The database is four tables: courses, modules, contents and the item    *)
(* tables (Text, File, Image, Video), the latter keyed by <<model name,    *)
(* id>>.  Every view is one action that runs the whole handler, except     *)
(* ContentDeleteView.post: it issues its statements in autocommit mode     *)
(* with no transaction around them, so it is split at the statements and   *)
(* other requests interleave between them.                                 *)
(*                                                                         *)
(* Every row carries one editable field, title, which stands for all the   *)
(* editable fields of the form of that row; the empty title stands for a   *)
(* submission that fails the validation of the form.                       *)
(***************************************************************************)
EXTENDS Integers, Sequences, FiniteSets, TLC

\* ------------------------------------------------------------------ bounds
\* Rows a run may insert into each table, under Spec ...
MaxCourses == 2
MaxModules == 2
MaxContents == 1
\* ... under SpecModules (modules, and rows of a submitted batch) ...
MaxFormsetModules == 3
MaxBatch == 2
\* ... and under SpecContents (contents).
MaxModuleContents == 2

\* ------------------------------------------------------------- identities
\* Authenticated users.  u1 and u2 are instructors who hold the four course
\* permissions; u3 is an authenticated user who holds none of them.
Users == {"u1", "u2", "u3"}
Instructors == {"u1", "u2"}
CoursePerms == {"courses.view_course", "courses.add_course",
                "courses.change_course", "courses.delete_course"}
Perms == [u \in Users |-> IF u \in Instructors THEN CoursePerms ELSE {}]

NoUser == "nobody"
Titles == {"a", "b"}
Blank == ""
Submitted == Titles \cup {Blank}

\* models.py:56-60 and views.py:225: the four content models.
ValidModelNames == {"text", "video", "image", "file"}
\* Model names a request may carry in its URL.
ModelNames == {"text", "video", "pdf"}
NoModel == "None"

Workers == {1, 2}

VARIABLES
    courses,     \* Course table: id -> [owner, title]
    modules,     \* Module table: id -> [course, title]
    contents,    \* Content table: id -> [module, content_type, object_id]
    items,       \* item tables: <<model name, id>> -> [owner, title]
    nextId,      \* auto-increment counters: table name -> last id given
    pc,          \* ContentDeleteView.post in flight: worker -> position
    local,       \* its local variables: worker -> [user, id, ct, oid]
    createdBy,   \* history: who sent the request that created each row
    quota,       \* the number of rows a run may insert: table name -> bound
    last         \* the response the last step emitted (op "-" if none)

db == <<courses, modules, contents, items>>
vars == <<courses, modules, contents, items, nextId, pc, local, createdBy, quota, last>>

\* ---------------------------------------------------------------- helpers
Empty == [x \in {} |-> 0]

Drop(f, S) == [x \in DOMAIN f \ S |-> f[x]]

Put(f, k, v) == [x \in DOMAIN f \cup {k} |-> IF x = k THEN v ELSE f[x]]

Max(S) == CHOOSE x \in S : \A y \in S : y <= x
Min(S) == CHOOSE x \in S : \A y \in S : x <= y

RECURSIVE Descending(_)
Descending(S) == IF S = {} THEN <<>> ELSE <<Max(S)>> \o Descending(S \ {Max(S)})

RECURSIVE Ascending(_)
Ascending(S) == IF S = {} THEN <<>> ELSE <<Min(S)>> \o Ascending(S \ {Min(S)})

Range(s) == {s[i] : i \in DOMAIN s}

\* Every order in which an unordered query may return the rows S.
Orders(S) == {s \in [1..Cardinality(S) -> S] : Range(s) = S}

NoLocal == [user |-> NoUser, id |-> 0, ct |-> NoModel, oid |-> 0]

\* A response: the view that answered, the outcome, and the rows it lists.
Response(op, outcome) == [op |-> op, outcome |-> outcome, listing |-> <<>>]

NoResponse == Response("-", "-")

\* ------------------------------------------------------------ the queries
\* The queryset without the filter on the owner.
OwnerQuerysetUnfiltered(u) == DOMAIN courses

\* OwnerMixin.get_queryset: the courses the requester owns.
OwnerQueryset(u) == {c \in DOMAIN courses : courses[c].owner = u}

\* PermissionRequiredMixin.has_permission.
HasPerm(u, perm) == perm \in Perms[u]

\* get_object_or_404(Course, id=pk, owner=request.user)
CourseFound(pk, u) == pk \in DOMAIN courses /\ courses[pk].owner = u

\* The module lookup without the filter on the owner of the course.
ModuleFoundAny(m, u) == m \in DOMAIN modules

\* get_object_or_404(Module, id=module_id, course__owner=request.user)
ModuleFound(m, u) == m \in DOMAIN modules /\ courses[modules[m].course].owner = u

\* get_model: the model class of a model name, or None.
get_model(model_name) ==
    IF model_name \in {"text", "video", "image", "file"} THEN model_name ELSE NoModel

\* get_object_or_404(self.model, id=id, owner=request.user)
ItemFound(model, id, u) == <<model, id>> \in DOMAIN items /\ items[<<model, id>>].owner = u

\* get_object_or_404(Content, id=id, module__course__owner=request.user)
ContentFound(id, u) ==
    id \in DOMAIN contents /\ courses[modules[contents[id].module].course].owner = u

\* The rows that on_delete=CASCADE removes with a set of courses.
ModulesOf(cs) == {m \in DOMAIN modules : modules[m].course \in cs}
ContentsOf(ms) == {c \in DOMAIN contents : contents[c].module \in ms}

\* ------------------------------------------------------------------- Init
Init ==
    /\ courses = Empty
    /\ modules = Empty
    /\ contents = Empty
    /\ items = Empty
    /\ nextId = [t \in {"course", "module", "content"} \cup ValidModelNames |-> 0]
    /\ pc = [w \in Workers |-> "idle"]
    /\ local = [w \in Workers |-> NoLocal]
    /\ createdBy = [course |-> Empty, item |-> Empty]
    /\ quota = [course |-> MaxCourses, module |-> MaxModules, content |-> MaxContents]
    /\ last = NoResponse

\* ------------------------------------------------------------- model forms
\* The POST data of a model form: the editable field, and an owner field a
\* client may add to the submission.
FormData == [title : Submitted, owner : Instructors]

\* The submissions of Spec: one title or none, and any owner.
OneTitle == {"a", Blank}
OwnerData == [title : OneTitle, owner : Instructors]

\* OwnerCourseMixin.fields = ['subject', 'title', 'slug', 'overview']
CourseFields == {"title"}

\* modelform_factory(model, exclude=['owner', 'order', 'created', 'updated']):
\* the fields of ItemBase and its subclass that are left.
ItemFields == {"owner", "title"} \ {"owner", "order", "created", "updated"}

\* ModelForm.is_valid: every field of the form is filled in.
is_valid(data, fields) == \A f \in fields : data[f] # Blank

\* ModelForm.save: only the fields of the form are taken from the data.
form_save(instance, data, fields) ==
    [f \in DOMAIN instance |-> IF f \in fields THEN data[f] ELSE instance[f]]

NewRow == [owner |-> NoUser, title |-> Blank]

\* form_valid without the assignment of the owner.
form_valid_unstamped(instance, u) == instance

\* OwnerEditMixin.form_valid: form.instance.owner = self.request.user
form_valid(instance, u) == [instance EXCEPT !.owner = u]

\* ------------------------------------------------------------ course views
Unchanged ==
    UNCHANGED <<courses, modules, contents, items, nextId, pc, local, createdBy, quota>>

\* Every step emits the response of its view, and a view that does not end
\* in its success outcome returns before it writes.
Respond(op, outcome) == last' = Response(op, outcome) /\ Unchanged

\* ManageCourseListView.get: PermissionRequiredMixin, then the owner's courses
\* in the order of Course.Meta.ordering = ['-created'].
CourseListOutcome(u) ==
    IF ~HasPerm(u, "courses.view_course") THEN "Forbidden" ELSE "Rendered"

CourseListing(u) == Descending(OwnerQueryset(u))

CourseList(u) ==
    LET outcome == CourseListOutcome(u)
    IN  /\ last' = IF outcome = "Rendered"
                   THEN [Response("course_list", outcome) EXCEPT !.listing = CourseListing(u)]
                   ELSE Response("course_list", outcome)
        /\ Unchanged

\* CourseCreateView.post
CourseCreateOutcome(u, data) ==
    IF ~HasPerm(u, "courses.add_course") THEN "Forbidden"
    ELSE IF ~is_valid(data, CourseFields) THEN "FormErrors"
    ELSE "Redirect"

CourseCreate(u, data) ==
    LET outcome == CourseCreateOutcome(u, data)
    IN
    IF outcome # "Redirect"
    THEN Respond("course_create", outcome)
    ELSE /\ nextId["course"] < quota.course
         /\ courses' = Put(courses, nextId["course"] + 1,
                           form_valid(form_save(NewRow, data, CourseFields), u))
         /\ nextId' = [nextId EXCEPT !["course"] = @ + 1]
         /\ createdBy' = [createdBy EXCEPT !.course = Put(@, nextId["course"] + 1, u)]
         /\ last' = Response("course_create", "Redirect")
         /\ UNCHANGED <<modules, contents, items, pc, local, quota>>

\* CourseUpdateView.post: PermissionRequiredMixin, get_object on the owner's
\* queryset, the form.
CourseUpdateOutcome(u, pk, data) ==
    IF ~HasPerm(u, "courses.change_course") THEN "Forbidden"
    ELSE IF pk \notin OwnerQueryset(u) THEN "NotFound"
    ELSE IF ~is_valid(data, CourseFields) THEN "FormErrors"
    ELSE "Redirect"

CourseUpdate(u, pk, data) ==
    LET outcome == CourseUpdateOutcome(u, pk, data)
    IN
    IF outcome # "Redirect"
    THEN Respond("course_update", outcome)
    ELSE /\ courses' = [courses EXCEPT
                           ![pk] = form_valid(form_save(@, data, CourseFields), u)]
         /\ last' = Response("course_update", "Redirect")
         /\ UNCHANGED <<modules, contents, items, nextId, pc, local, createdBy, quota>>

\* CourseDeleteView.post
CourseDeleteOutcome(u, pk) ==
    IF ~HasPerm(u, "courses.delete_course") THEN "Forbidden"
    ELSE IF pk \notin OwnerQueryset(u) THEN "NotFound"
    ELSE "Redirect"

\* Module.course and Content.module are on_delete=CASCADE.  Content.item is a
\* GenericForeignKey and the item models declare no GenericRelation, so the
\* deletion collects no item.
CourseDelete(u, pk) ==
    LET outcome == CourseDeleteOutcome(u, pk)
    IN
    IF outcome # "Redirect"
    THEN Respond("course_delete", outcome)
    ELSE /\ courses' = Drop(courses, {pk})
         /\ modules' = Drop(modules, ModulesOf({pk}))
         /\ contents' = Drop(contents, ContentsOf(ModulesOf({pk})))
         /\ createdBy' = [createdBy EXCEPT !.course = Drop(@, {pk})]
         /\ last' = Response("course_delete", "Redirect")
         /\ UNCHANGED <<items, nextId, pc, local, quota>>

\* The ids a URL or a form may name.
CourseIds == 1..MaxCourses
ModuleIds == 1..MaxFormsetModules
ContentIds == 1..MaxModuleContents

\* ------------------------------------------------------- module formset
\* A submitted batch: rows that create a module, update module id or mark
\* module id for deletion.
FormsetRows(ids, titles) ==
    [op : {"create"}, id : {0}, title : titles]
        \cup [op : {"update"}, id : ids, title : titles]
        \cup [op : {"delete"}, id : ids, title : {Blank}]

Batches(len, ids, titles) == UNION {[1..n -> FormsetRows(ids, titles)] : n \in 1..len}

\* A row is valid when its fields validate and the module it names is one of
\* the course of the formset.
row_is_valid(c, row) ==
    /\ row.op \in {"create", "update"} => row.title # Blank
    /\ row.op \in {"update", "delete"} => row.id \in ModulesOf({c})

\* ModuleFormSet.is_valid
formset_is_valid(c, batch) == \A i \in DOMAIN batch : row_is_valid(c, batch[i])

\* One row of ModuleFormSet.save, on the tables t = [modules, contents, next].
\* Deleting a module removes its Content rows (Content.module is CASCADE).
row_save(c, row, t) ==
    IF row.op = "create"
    THEN [t EXCEPT !.modules = Put(@, t.next + 1, [course |-> c, title |-> row.title]),
                   !.next = @ + 1]
    ELSE IF row.id \notin DOMAIN t.modules
    THEN t
    ELSE IF row.op = "update"
    THEN [t EXCEPT !.modules[row.id].title = row.title]
    ELSE [t EXCEPT !.modules = Drop(@, {row.id}),
                   !.contents = Drop(@, {x \in DOMAIN @ : @[x].module = row.id})]

\* ModuleFormSet.save: the rows in order; a row that did not validate is not
\* saved.
RECURSIVE formset_save(_, _, _)
formset_save(c, batch, t) ==
    IF batch = <<>>
    THEN t
    ELSE formset_save(c, Tail(batch),
                      IF row_is_valid(c, Head(batch))
                      THEN row_save(c, Head(batch), t) ELSE t)

Tables == [modules |-> modules, contents |-> contents, next |-> nextId["module"]]

\* CourseModuleUpdateView.dispatch
CourseModuleOutcome(u, pk) == IF CourseFound(pk, u) THEN "-" ELSE "NotFound"

\* CourseModuleUpdateView.get
CourseModuleGet(u, pk) ==
    LET outcome == CourseModuleOutcome(u, pk)
    IN  /\ last' = IF outcome = "-"
                   THEN [Response("module_formset", "Rendered")
                            EXCEPT !.listing = Ascending(ModulesOf({pk}))]
                   ELSE Response("module_formset", outcome)
        /\ Unchanged

\* post() that saves the rows that validate of a batch that does not.
formset_post_partial(c, batch) ==
    [tables |-> formset_save(c, batch, Tables),
     outcome |-> IF formset_is_valid(c, batch) THEN "Redirect" ELSE "FormErrors"]

\* CourseModuleUpdateView.post: the tables after the request and its outcome.
formset_post(c, batch) ==
    IF formset_is_valid(c, batch)
    THEN [tables |-> formset_save(c, batch, Tables), outcome |-> "Redirect"]
    ELSE [tables |-> Tables, outcome |-> "FormErrors"]

CourseModulePostOutcome(u, pk, batch) ==
    IF CourseModuleOutcome(u, pk) # "-" THEN CourseModuleOutcome(u, pk)
    ELSE formset_post(pk, batch).outcome

CourseModulePost(u, pk, batch) ==
    LET outcome == CourseModuleOutcome(u, pk)
        res == formset_post(pk, batch)
    IN
    IF outcome # "-"
    THEN Respond("module_post", outcome)
    ELSE /\ res.tables.next <= quota.module
         /\ modules' = res.tables.modules
         /\ contents' = res.tables.contents
         /\ nextId' = [nextId EXCEPT !["module"] = res.tables.next]
         /\ last' = Response("module_post", res.outcome)
         /\ UNCHANGED <<courses, items, pc, local, createdBy, quota>>

\* ------------------------------------------------------------ content views
\* ContentCreateUpdateView.dispatch: the outcome that ends the request there,
\* or "-" when the request goes on to get() or post().  id = 0 is a URL
\* without an id.  get_object_or_404(None, ...) raises ValueError.
dispatch(u, module_id, model_name, id) ==
    IF ~ModuleFound(module_id, u) THEN "NotFound"
    ELSE IF id = 0 THEN "-"
    ELSE IF get_model(model_name) = NoModel THEN "ServerError"
    ELSE IF ~ItemFound(get_model(model_name), id, u) THEN "NotFound"
    ELSE "-"

\* get_form: modelform_factory(None, ...) raises AttributeError.
get_form(model) == IF model = NoModel THEN "ServerError" ELSE "-"

\* ContentCreateUpdateView.get
ContentGetOutcome(u, module_id, model_name, id) ==
    LET dispatched == dispatch(u, module_id, model_name, id)
        form == get_form(get_model(model_name))
    IN  IF dispatched # "-" THEN dispatched
        ELSE IF form # "-" THEN form
        ELSE "Rendered"

ContentGet(u, module_id, model_name, id) ==
    Respond("content_get", ContentGetOutcome(u, module_id, model_name, id))

\* ContentCreateUpdateView.post: a valid form with an id saves the item and
\* falls through to the render of line 257; without an id it redirects.
ContentPostOutcome(u, module_id, model_name, id, data) ==
    LET got == ContentGetOutcome(u, module_id, model_name, id)
    IN  IF got # "Rendered" THEN got
        ELSE IF ~is_valid(data, ItemFields) THEN "FormErrors"
        ELSE IF id # 0 THEN "Rendered"
        ELSE "Redirect"

\* Lines 249-251: obj = form.save(commit=False); obj.owner = request.user;
\* obj.save().  A new row takes the next id of the table of its model.
ItemId(model, id) == IF id # 0 THEN id ELSE nextId[model] + 1

obj_save(u, model, id, data) ==
    Put(items, <<model, ItemId(model, id)>>,
        [form_save(IF id # 0 THEN items[<<model, id>>] ELSE NewRow, data, ItemFields)
            EXCEPT !.owner = u])

\* post() without the creation of the Content row.
content_create_none(module_id, model, oid) == contents

\* Line 254: Content.objects.create(module=self.module, item=obj)
content_create(module_id, model, oid) ==
    Put(contents, nextId["content"] + 1,
        [module |-> module_id, content_type |-> model, object_id |-> oid])

ContentPost(u, module_id, model_name, id, data) ==
    LET model == get_model(model_name)
        outcome == ContentPostOutcome(u, module_id, model_name, id, data)
    IN  IF outcome \in {"NotFound", "ServerError", "FormErrors"}
        THEN Respond("content_post", outcome)
        ELSE IF id # 0
        THEN /\ items' = obj_save(u, model, id, data)
             /\ last' = Response("content_post", outcome)
             /\ UNCHANGED <<courses, modules, contents, nextId, pc, local, createdBy, quota>>
        ELSE /\ nextId["content"] < quota.content
             /\ items' = obj_save(u, model, id, data)
             /\ contents' = content_create(module_id, model, ItemId(model, id))
             /\ nextId' = [nextId EXCEPT ![model] = @ + 1, !["content"] = @ + 1]
             /\ createdBy' = [createdBy EXCEPT !.item = Put(@, <<model, ItemId(model, id)>>, u)]
             /\ last' = Response("content_post", outcome)
             /\ UNCHANGED <<courses, modules, pc, local, quota>>

\* ContentDeleteView.post, line 262: the Content row is fetched.
ContentDeleteOutcome(u, id) == IF ContentFound(id, u) THEN "-" ELSE "NotFound"

DeleteFetch(w, u, id) ==
    /\ pc[w] = "idle"
    /\ IF ContentDeleteOutcome(u, id) = "-"
       THEN /\ pc' = [pc EXCEPT ![w] = "get_item"]
            /\ local' = [local EXCEPT ![w] =
                            [user |-> u, id |-> id, ct |-> contents[id].content_type,
                             oid |-> contents[id].object_id]]
            /\ last' = NoResponse
       ELSE /\ last' = Response("content_delete", "NotFound")
            /\ UNCHANGED <<pc, local>>
    /\ UNCHANGED <<courses, modules, contents, items, nextId, createdBy, quota>>

\* The item the fetched Content row refers to.
Item(w) == <<local[w].ct, local[w].oid>>

\* Line 264, content.item: the GenericForeignKey fetches the item, and is None
\* when there is no such row, so that .delete() raises AttributeError.
DeleteGetItem(w) ==
    /\ pc[w] = "get_item"
    /\ IF Item(w) \in DOMAIN items
       THEN /\ pc' = [pc EXCEPT ![w] = "delete_item"]
            /\ last' = NoResponse
            /\ UNCHANGED local
       ELSE /\ pc' = [pc EXCEPT ![w] = "idle"]
            /\ last' = Response("content_delete", "ServerError")
            /\ local' = [local EXCEPT ![w] = NoLocal]
    /\ UNCHANGED <<courses, modules, contents, items, nextId, createdBy, quota>>

\* The deletion without the statement that deletes the item.
DeleteItemSkipped(w) ==
    /\ pc[w] = "delete_item"
    /\ pc' = [pc EXCEPT ![w] = "delete_content"]
    /\ last' = NoResponse
    /\ UNCHANGED <<courses, modules, contents, items, nextId, local, createdBy, quota>>

\* Line 264, .delete(): the item row is deleted, if it is still there.
DeleteItem(w) ==
    /\ pc[w] = "delete_item"
    /\ items' = Drop(items, {Item(w)})
    /\ createdBy' = [createdBy EXCEPT !.item = Drop(@, {Item(w)})]
    /\ pc' = [pc EXCEPT ![w] = "delete_content"]
    /\ last' = NoResponse
    /\ UNCHANGED <<courses, modules, contents, nextId, local, quota>>

\* Line 265, content.delete(), and the redirect of line 266.
DeleteContent(w) ==
    /\ pc[w] = "delete_content"
    /\ contents' = Drop(contents, {local[w].id})
    /\ pc' = [pc EXCEPT ![w] = "idle"]
    /\ last' = Response("content_delete", "Redirect")
    /\ local' = [local EXCEPT ![w] = NoLocal]
    /\ UNCHANGED <<courses, modules, items, nextId, createdBy, quota>>

\* ModuleContentListView.get.  The template walks module.contents; Content
\* declares no Meta.ordering and the query has no order_by, so the rows come
\* in any order.
ContentListOutcome(u, module_id) ==
    IF ModuleFound(module_id, u) THEN "Rendered" ELSE "NotFound"

ContentListings(module_id) == Orders(ContentsOf({module_id}))

ModuleContentList(u, module_id) ==
    /\ IF ContentListOutcome(u, module_id) = "Rendered"
       THEN \E order \in ContentListings(module_id) :
                last' = [Response("content_list", "Rendered") EXCEPT !.listing = order]
       ELSE last' = Response("content_list", "NotFound")
    /\ Unchanged

\* ---------------------------------------------------------- specifications
\* Spec: every view, from the empty database, with submissions that name any
\* owner.
Next ==
    \/ \E u \in Users : CourseList(u)
    \/ \E u \in Users, data \in OwnerData : CourseCreate(u, data)
    \/ \E u \in Users, pk \in 1..MaxCourses, data \in OwnerData : CourseUpdate(u, pk, data)
    \/ \E u \in Users, pk \in 1..MaxCourses : CourseDelete(u, pk)
    \/ \E u \in Users, pk \in 1..MaxCourses : CourseModuleGet(u, pk)
    \/ \E u \in Users, pk \in 1..MaxCourses, batch \in Batches(1, 1..MaxModules, OneTitle) :
           CourseModulePost(u, pk, batch)
    \/ \E u \in Users, m \in 1..MaxModules, n \in ModelNames, id \in 0..MaxContents :
           ContentGet(u, m, n, id)
    \/ \E u \in Users, m \in 1..MaxModules, n \in ModelNames, id \in 0..MaxContents,
          data \in OwnerData : ContentPost(u, m, n, id, data)
    \/ \E u \in Users, id \in 1..MaxContents : DeleteFetch(1, u, id)
    \/ DeleteGetItem(1)
    \/ DeleteItem(1)
    \/ DeleteContent(1)
    \/ \E u \in Users, m \in 1..MaxModules : ModuleContentList(u, m)

Spec == Init /\ [][Next]_vars

\* The database after u1 and u2 each created a course, u1 a module in course 1
\* with one text content and u2 a module in course 2.
Snapshot ==
    /\ courses = <<[owner |-> "u1", title |-> "a"], [owner |-> "u2", title |-> "a"]>>
    /\ modules = <<[course |-> 1, title |-> "a"], [course |-> 2, title |-> "a"]>>
    /\ pc = [w \in Workers |-> "idle"]
    /\ local = [w \in Workers |-> NoLocal]
    /\ last = NoResponse

\* SpecModules: the module formset and the deletion of courses.
InitModules ==
    /\ Snapshot
    /\ contents = <<[module |-> 1, content_type |-> "text", object_id |-> 1]>>
    /\ items = [k \in {<<"text", 1>>} |-> [owner |-> "u1", title |-> "a"]]
    /\ nextId = [t \in {"course", "module", "content"} \cup ValidModelNames |->
                    IF t \in {"course", "module"} THEN 2 ELSE IF t \in {"content", "text"} THEN 1 ELSE 0]
    /\ createdBy = [course |-> <<"u1", "u2">>, item |-> [k \in {<<"text", 1>>} |-> "u1"]]
    /\ quota = [course |-> 2, module |-> MaxFormsetModules, content |-> 1]

NextModules ==
    \/ \E u \in Instructors, pk \in CourseIds : CourseModuleGet(u, pk)
    \/ \E u \in Instructors, pk \in CourseIds, batch \in Batches(MaxBatch, ModuleIds, Submitted) :
           CourseModulePost(u, pk, batch)
    \/ \E u \in Instructors, pk \in CourseIds : CourseDelete(u, pk)

SpecModules == InitModules /\ [][NextModules]_vars

\* SpecContents: the content views, with two deletions in flight.  A request
\* is served by the first worker that is free.
FirstIdle(w) == \A x \in Workers : x < w => pc[x] # "idle"

InitContents ==
    /\ Snapshot
    /\ contents = Empty
    /\ items = Empty
    /\ nextId = [t \in {"course", "module", "content"} \cup ValidModelNames |->
                    IF t \in {"course", "module"} THEN 2 ELSE 0]
    /\ createdBy = [course |-> <<"u1", "u2">>, item |-> Empty]
    /\ quota = [course |-> 2, module |-> 2, content |-> MaxModuleContents]

NextContents ==
    \/ \E u \in Instructors, m \in 1..2, n \in ModelNames, id \in 0..MaxModuleContents :
           ContentGet(u, m, n, id)
    \/ \E u \in Instructors, m \in 1..2, n \in ModelNames, id \in 0..MaxModuleContents,
          title \in Submitted : ContentPost(u, m, n, id, [title |-> title, owner |-> u])
    \/ \E w \in Workers, u \in Instructors, id \in ContentIds :
           FirstIdle(w) /\ DeleteFetch(w, u, id)
    \/ \E w \in Workers : DeleteGetItem(w)
    \/ \E w \in Workers : DeleteItem(w)
    \/ \E w \in Workers : DeleteContent(w)
    \/ \E u \in Instructors, m \in 1..2 : ModuleContentList(u, m)

SpecContents == InitContents /\ [][NextContents]_vars

\* ------------------------------------------------------------------ claims
\* The rows of other users that a request of user A may name.
ForeignCourses(A) == {c \in DOMAIN courses : courses[c].owner # A}
ForeignModules(A) == ModulesOf(ForeignCourses(A))
ForeignContents(A) == ContentsOf(ForeignModules(A))
ForeignItems(A) == {k \in DOMAIN items : items[k].owner # A}

\* The outcomes of the course views for A's requests on courses of others.
CourseUpdateOutcomes(A) ==
    {CourseUpdateOutcome(A, pk, data) : pk \in ForeignCourses(A), data \in OwnerData}
CourseDeleteOutcomes(A) == {CourseDeleteOutcome(A, pk) : pk \in ForeignCourses(A)}

\* The outcomes of the other views for A's requests on rows of others: the
\* module formset, a content form in a module of another user or for an item
\* of another user, a content deletion, a content listing.
OtherOutcomes(A) ==
    {CourseModuleOutcome(A, pk) : pk \in ForeignCourses(A)}
        \cup {CourseModulePostOutcome(A, pk, batch) :
                  pk \in ForeignCourses(A), batch \in Batches(1, 1..MaxModules, OneTitle)}
        \cup {ContentGetOutcome(A, m, n, id) :
                  m \in ForeignModules(A), n \in ModelNames, id \in 0..MaxContents}
        \cup {ContentPostOutcome(A, m, n, id, data) :
                  m \in ForeignModules(A), n \in ModelNames, id \in 0..MaxContents,
                  data \in OwnerData}
        \cup {ContentGetOutcome(A, m, k[1], k[2]) : m \in DOMAIN modules, k \in ForeignItems(A)}
        \cup {ContentPostOutcome(A, m, k[1], k[2], data) :
                  m \in DOMAIN modules, k \in ForeignItems(A), data \in OwnerData}
        \cup {ContentDeleteOutcome(A, id) : id \in ForeignContents(A)}
        \cup {ContentListOutcome(A, m) : m \in ForeignModules(A)}

ListsOwnCourses(A) ==
    \A i \in DOMAIN CourseListing(A) :
        CourseListing(A)[i] \in DOMAIN courses /\ courses[CourseListing(A)[i]].owner = A

\* A request that ends in NotFound or Forbidden changes no row.
RefusedChangesNothing ==
    last'.outcome \in {"NotFound", "Forbidden"} => db' = db

\* C1 as stated: every request of a user A on a row of another user ends in
\* NotFound, never in Forbidden, and changes no row; A's course listing holds
\* only courses of A.
C1_ForeignIsNotFound ==
    /\ [](\A A \in Users :
            /\ CourseUpdateOutcomes(A) \cup CourseDeleteOutcomes(A) \cup OtherOutcomes(A)
                   \subseteq {"NotFound"}
            /\ ListsOwnCourses(A))
    /\ [][RefusedChangesNothing]_vars

\* C1 as amended: the course edit and delete views check the permission of the
\* requester before they look the course up, so a request of A on a course of
\* another user ends in Forbidden when A lacks the permission of the view and
\* in NotFound when A holds it; every other request of A on a row of another
\* user ends in NotFound; none of these changes a row; A's course listing
\* holds only courses of A.
C1_ForeignIsNotFoundOrForbidden ==
    /\ [](\A A \in Users :
            /\ CourseUpdateOutcomes(A) \subseteq
                   {IF HasPerm(A, "courses.change_course") THEN "NotFound" ELSE "Forbidden"}
            /\ CourseDeleteOutcomes(A) \subseteq
                   {IF HasPerm(A, "courses.delete_course") THEN "NotFound" ELSE "Forbidden"}
            /\ OtherOutcomes(A) \subseteq {"NotFound"}
            /\ ListsOwnCourses(A))
    /\ [][RefusedChangesNothing]_vars

\* A course edit was answered NotFound while every course id a URL can name
\* exists: the course it named belongs to another user.
C1_Witness ==
    /\ last.op = "course_update" /\ last.outcome = "NotFound"
    /\ DOMAIN courses = 1..MaxCourses
    /\ \E c, d \in DOMAIN courses : courses[c].owner # courses[d].owner

\* C7: the owner of every course and of every item is the user whose request
\* created it, whatever owner the submitted data named and whatever edits
\* followed.
C7_OwnerIsCreator ==
    /\ \A c \in DOMAIN courses : courses[c].owner = createdBy.course[c]
    /\ \A k \in DOMAIN items : items[k].owner = createdBy.item[k]

\* A course and an item exist and an item has just been updated.
C7_Witness ==
    /\ last.op = "content_post" /\ last.outcome = "Rendered"
    /\ courses # Empty /\ items # Empty

\* C9: the item of every Content row is owned by the owner of the course of
\* the module of that row.
C9_ItemOwnerIsCourseOwner ==
    \A c \in DOMAIN contents :
        LET k == <<contents[c].content_type, contents[c].object_id>>
        IN  k \in DOMAIN items =>
                items[k].owner = courses[modules[contents[c].module].course].owner

\* A Content row with its item exists next to a course of another user.
C9_Witness ==
    /\ \E c \in DOMAIN contents :
           <<contents[c].content_type, contents[c].object_id>> \in DOMAIN items
    /\ \E c, d \in DOMAIN courses : courses[c].owner # courses[d].owner

\* The rows a content form posted without an id writes.
CreatesOnePair(u, m, n, data) ==
    LET model == get_model(n)
        key == <<model, ItemId(model, 0)>>
        newItems == obj_save(u, model, 0, data)
        newContents == content_create(m, model, ItemId(model, 0))
        added == DOMAIN newContents \ DOMAIN contents
    IN  /\ DOMAIN newItems \ DOMAIN items = {key}
        /\ \A k \in DOMAIN items : newItems[k] = items[k]
        /\ Cardinality(added) = 1
        /\ \A c \in DOMAIN contents : newContents[c] = contents[c]
        /\ \A c \in added :
               newContents[c] = [module |-> m, content_type |-> model, object_id |-> key[2]]

CreateStepAddsOnePair ==
    (last'.op = "content_post" /\ last'.outcome = "Redirect") =>
        /\ Cardinality(DOMAIN items' \ DOMAIN items) = 1
        /\ Cardinality(DOMAIN contents' \ DOMAIN contents) = 1
        /\ DOMAIN items \subseteq DOMAIN items'
        /\ DOMAIN contents \subseteq DOMAIN contents'

DeleteStepRemovesPair ==
    \A w \in Workers :
        (pc[w] = "delete_content" /\ pc'[w] = "idle") =>
            /\ last'.outcome = "Redirect"
            /\ local[w].id \notin DOMAIN contents'
            /\ Item(w) \notin DOMAIN items'

\* C2: a content form posted without an id that ends in its redirect adds
\* exactly one item row and exactly one Content row, and that row links the
\* module of the request to the new item; a content deletion that ends in its
\* redirect leaves neither the Content row it fetched nor the item of that
\* row.
C2_CreateAndDeletePair ==
    /\ [](\A u \in Instructors, m \in 1..2, n \in ModelNames, data \in FormData :
             ContentPostOutcome(u, m, n, 0, data) = "Redirect" => CreatesOnePair(u, m, n, data))
    /\ [][CreateStepAddsOnePair /\ DeleteStepRemovesPair]_vars

\* A content was created and then deleted: the deletion has just redirected
\* and neither a Content row nor an item is left.
C2_Witness ==
    /\ last.op = "content_delete" /\ last.outcome = "Redirect"
    /\ nextId["content"] > 0
    /\ contents = Empty /\ items = Empty

\* C3: a content form (GET or POST) without an id, for a module of the
\* requester and a model name that is none of text, video, image and file,
\* ends in BadRequest, and a step that answers a content form with BadRequest
\* or ServerError writes no row.
C3_UnknownModelIsBadRequest ==
    /\ [](\A u \in Users, m \in DOMAIN modules, n \in ModelNames \ ValidModelNames :
            ModuleFound(m, u) =>
                /\ ContentGetOutcome(u, m, n, 0) = "BadRequest"
                /\ \A data \in OwnerData : ContentPostOutcome(u, m, n, 0, data) = "BadRequest")
    /\ [][(last'.op \in {"content_get", "content_post"}
              /\ last'.outcome \in {"BadRequest", "ServerError"}) => db' = db]_vars

SomeRowInvalid(c, batch) == \E i \in DOMAIN batch : ~row_is_valid(c, batch[i])

\* C4: a submitted batch with a row that does not validate ends in the
\* re-rendered form and changes no row of any table; the tables change only
\* when every row of the batch validates.
C4_BatchIsAllOrNothing ==
    /\ [](\A u \in Instructors, pk \in CourseIds, batch \in Batches(MaxBatch, ModuleIds, Submitted) :
             CourseFound(pk, u) =>
                 /\ SomeRowInvalid(pk, batch) =>
                        /\ CourseModulePostOutcome(u, pk, batch) = "FormErrors"
                        /\ formset_post(pk, batch).tables = Tables
                 /\ formset_post(pk, batch).tables # Tables => ~SomeRowInvalid(pk, batch))
    /\ [][(last'.op = "module_post" /\ last'.outcome = "FormErrors") =>
              db' = db /\ nextId' = nextId]_vars

\* A batch has just been rejected while the course of u1 has two modules.
C4_Witness ==
    /\ last.op = "module_post" /\ last.outcome = "FormErrors"
    /\ Cardinality(ModulesOf({1})) >= 2

\* C5: a step that deletes a module deletes the Content rows of the module
\* and the items those rows refer to.
C5_ModuleDeletionRemovesItems ==
    [][\A m \in DOMAIN modules \ DOMAIN modules' :
           \A c \in ContentsOf({m}) :
               /\ c \notin DOMAIN contents'
               /\ <<contents[c].content_type, contents[c].object_id>> \notin DOMAIN items']_vars

\* C6: the (content_type, object_id) of every Content row names an item row.
C6_NoDanglingContent ==
    \A c \in DOMAIN contents :
        <<contents[c].content_type, contents[c].object_id>> \in DOMAIN items

\* C8: a module listing returns the Content rows of the module in the order
\* they were created.
C8_ListedInCreationOrder ==
    (last.op = "content_list" /\ last.outcome = "Rendered") =>
        last.listing = Ascending(Range(last.listing))

\* C10: a content deletion deletes the item before the Content row: a deletion
\* that stands before line 265 has no item left, the step of line 265 removes
\* a Content row whose item is gone, and a deletion whose fetch finds no
\* Content row of the requester changes no row.
C10_ItemBeforeContent ==
    /\ [](\A w \in Workers :
             /\ pc[w] = "delete_content" => Item(w) \notin DOMAIN items
             /\ pc[w] # "idle" =>
                    (local[w].id \in DOMAIN contents => ContentFound(local[w].id, local[w].user)))
    /\ [][/\ \A w \in Workers, c \in DOMAIN contents \ DOMAIN contents' :
                 pc[w] = "delete_content" /\ pc'[w] = "idle" =>
                     <<contents[c].content_type, contents[c].object_id>> \notin DOMAIN items
          /\ (last'.op = "content_delete" /\ last'.outcome = "NotFound") => db' = db]_vars

\* A deletion stands between its two statements: the item is gone and the
\* Content row is still there.
C10_Witness ==
    \E w \in Workers :
        /\ pc[w] = "delete_content"
        /\ local[w].id \in DOMAIN contents
        /\ Item(w) \notin DOMAIN items
====
